---- MODULE Spec2Model ----
(***************************************************************************)
(* confindent: configuration by indentation.                               *)
(*                                                                         *)
(* The sources hold two generations of the library side by side:           *)
(*   - src/src/lib.rs: Confindent / ConfSection, a complete parser and     *)
(*     serializer that counts indentation levels (a tab or two spaces);    *)
(*   - src/src/indent.rs, value.rs, line.rs, error.rs: the Indent          *)
(*     classifier, the Value line tokenizer, the Line enum and their       *)
(*     Display implementations.  The document driver that feeds lines to   *)
(*     Value::from_str and assembles Values into a forest is not among     *)
(*     the sources; it is modelled from the specification (sections 4.2,   *)
(*     4.3 and 7) and kept apart under the names starting with Doc.        *)
(*                                                                         *)
(* Text is modelled as a sequence of one-character strings.                *)
(***************************************************************************)
EXTENDS Integers, Sequences, FiniteSets, TLC

VARIABLES
    s,          \* Indent::from_str: the argument
    indent,     \* Indent::from_str: the outcome, NotRun before the call
    text,       \* the lines of the input, in order (line by line: those consumed)
    sections,   \* lib.rs Confindent.sections
    pos,        \* per consumed line: where lib.rs attached its section (<<>> if none)
    doc,        \* the Value/Line forest under assembly: children and open path
    err,        \* the error the document parse ended with, or NoError
    pc,         \* position of the document pipeline
    out,        \* the serializer's output
    re,         \* the outcome of parsing the serializer's output again
    rawline,    \* one line of text: the argument of the tokenizer
    lineTok,    \* what the tokenizer made of the line, NotRun before the call
    lineOut,    \* the Display output of the tokenized line
    lookup,     \* the outcome of the last child lookup
    cursor,     \* whole-text parse: the 1-based number of the next line
    refIndent,  \* Indent::delta_from: the argument other, the reference indent
    deltaRes,   \* Indent::delta_from: the outcome, NotRun before the call
    eqStack,    \* ValueParseError::eq: the frames of the calls not yet returned
    eqOut       \* ValueParseError::eq: how the comparison ended, "-" while it runs

vars ==
    <<s, indent, text, sections, pos, doc, err, pc, out, re, rawline, lineTok, lineOut, lookup,
      cursor, refIndent, deltaRes, eqStack, eqOut>>

indentVars == <<s, indent>>
legacyVars == <<sections, pos>>
docVars == <<doc, err, pc, out, re>>
lineVars == <<rawline, lineTok, lineOut>>
lookupVars == <<lookup, cursor>>
deltaVars == <<refIndent, deltaRes>>
eqVars == <<eqStack, eqOut>>

----------------------------------------------------------------------------
(* Characters and strings *)

TAB == "\t"
SP == " "
FF == "\f"
NL == "\n"
HASH == "#"

\* char::is_whitespace (Unicode White_Space), over the characters of the model
IsWhitespace(c) == c \in {TAB, SP, FF, NL}

\* char::is_ascii_whitespace (U+0020, U+0009, U+000A, U+000C, U+000D), over
\* the characters of the model
IsAsciiWhitespace(c) == c \in {TAB, SP, FF, NL}

Range(q) == {q[i] : i \in 1..Len(q)}

\* All strings over the alphabet of at most n characters
RECURSIVE Strs(_, _)
Strs(alphabet, n) ==
    IF n = 0 THEN {<<>>}
    ELSE LET shorter == Strs(alphabet, n - 1)
         IN  shorter \cup {Append(q, c) : q \in shorter, c \in alphabet}

\* str::repeat
RECURSIVE Repeat(_, _)
Repeat(c, n) == IF n = 0 THEN <<>> ELSE <<c>> \o Repeat(c, n - 1)

\* str::trim(..).is_empty(): nothing is left once the whitespace is trimmed
TrimIsEmpty(q) == \A i \in 1..Len(q) : IsWhitespace(q[i])

\* Option<String>
None == [some |-> FALSE, v |-> <<>>]
Some(v) == [some |-> TRUE, v |-> v]

\* Result: a value, a ParseErrorKind, or a panic that unwinds out of the call
Ok(v) == [res |-> "Ok", val |-> v, kind |-> "-"]
Err(k) == [res |-> "Err", val |-> <<>>, kind |-> k]
Panic == [res |-> "Panic", val |-> <<>>, kind |-> "-"]
NotRun == [res |-> "NotRun", val |-> <<>>, kind |-> "-"]

----------------------------------------------------------------------------
(* indent.rs *)

Empty == [tag |-> "Empty", count |-> 0, delta |-> 0]
Tabs(c, d) == [tag |-> "Tabs", count |-> c, delta |-> d]
Spaces(c, d) == [tag |-> "Spaces", count |-> c, delta |-> d]

Abs(n) == IF n < 0 THEN 0 - n ELSE n

\* A delta_from that lets a tab indent pass against a space reference
DeltaFromLenient(self, other) ==
    CASE self.tag = "Empty" ->
            IF other.tag = "Empty" THEN Ok(self) ELSE Err("StartedIndented")
      [] self.tag = "Tabs" ->
            IF other.tag = "Empty" THEN Ok([self EXCEPT !.delta = self.count])
            ELSE Ok([self EXCEPT !.delta = Abs(other.count - self.count)])
      [] self.tag = "Spaces" ->
            IF other.tag = "Empty" THEN Ok([self EXCEPT !.delta = self.count])
            ELSE IF other.tag = "Tabs" THEN Err("TabsWithSpaces")
            ELSE Ok([self EXCEPT !.delta = Abs(other.count - self.count)])

\* Indent::delta_from: self with its delta filled in, or the error kind
DeltaFrom(self, other) ==
    CASE self.tag = "Empty" ->
            IF other.tag = "Empty" THEN Ok(self) ELSE Err("StartedIndented")
      [] self.tag = "Tabs" ->
            IF other.tag = "Empty" THEN Ok([self EXCEPT !.delta = self.count])
            ELSE IF other.tag = "Tabs"
                 THEN Ok([self EXCEPT !.delta = Abs(other.count - self.count)])
            ELSE Err("SpacesWithTabs")
      [] self.tag = "Spaces" ->
            IF other.tag = "Empty" THEN Ok([self EXCEPT !.delta = self.count])
            ELSE IF other.tag = "Tabs" THEN Err("TabsWithSpaces")
            ELSE Ok([self EXCEPT !.delta = Abs(other.count - self.count)])

\* The loop of Indent::from_str over the characters after the first
RECURSIVE FromStrLoop(_, _)
FromStrLoop(ind, chars) ==
    IF chars = <<>> THEN Ok(ind)
    ELSE LET ch == Head(chars)
         IN  CASE ch = SP ->
                    IF ind.tag = "Spaces"
                    THEN FromStrLoop([ind EXCEPT !.count = @ + 1], Tail(chars))
                    ELSE Err("MixedIndent")
               [] ch = TAB ->
                    IF ind.tag = "Tabs"
                    THEN FromStrLoop([ind EXCEPT !.count = @ + 1], Tail(chars))
                    ELSE Err("MixedIndent")
               [] OTHER -> Panic    \* unreachable!()

\* A from_str that rejects a space in a tab indent but counts a tab into a
\* space indent
IndentFromStrFirstOnly(str) ==
    IF str = <<>> THEN Ok(Empty)
    ELSE IF ~TrimIsEmpty(str) THEN Panic
    ELSE IF Head(str) \notin {SP, TAB} THEN Panic
    ELSE IF Head(str) = TAB /\ SP \in Range(str) THEN Err("MixedIndent")
    ELSE IF \E i \in 1..Len(str) : str[i] \notin {SP, TAB} THEN Panic
    ELSE IF Head(str) = TAB THEN Ok(Tabs(Len(str), Len(str)))
    ELSE Ok(Spaces(Len(str), Len(str)))

\* impl FromStr for Indent
IndentFromStr(str) ==
    IF str = <<>> THEN Ok(Empty)
    ELSE IF ~TrimIsEmpty(str) THEN Panic
    ELSE LET first == CASE Head(str) = SP -> Ok(Spaces(1, 1))
                        [] Head(str) = TAB -> Ok(Tabs(1, 1))
                        [] OTHER -> Panic    \* unreachable!()
         IN  IF first.res # "Ok" THEN first
             ELSE LET looped == FromStrLoop(first.val, Tail(str))
                  IN  IF looped.res # "Ok" THEN looped
                      ELSE DeltaFrom(looped.val, Empty)

\* A Display for Indent that writes every indent with tabs
DisplayIndentTabsOnly(ind) ==
    IF ind.tag = "Empty" THEN <<>> ELSE Repeat(TAB, ind.count)

\* impl fmt::Display for Indent
DisplayIndent(ind) ==
    CASE ind.tag = "Empty" -> <<>>
      [] ind.tag = "Spaces" -> Repeat(SP, ind.count)
      [] ind.tag = "Tabs" -> Repeat(TAB, ind.count)

----------------------------------------------------------------------------
(* value.rs, line.rs *)

Min(S) == CHOOSE x \in S : \A y \in S : x <= y
Max(S) == CHOOSE x \in S : \A y \in S : x >= y

\* Value::whitespace_end_index: the 0-based index of the first character that
\* is not whitespace, 0 when there is none
WhitespaceEndIndex(str) ==
    LET idx == {i \in 1..Len(str) : ~IsAsciiWhitespace(str[i])}
    IN  IF idx = {} THEN 0 ELSE Min(idx) - 1

\* The leading whitespace of a line, as Value::split_whitespace cuts it
LeadingRun(line) == SubSeq(line, 1, WhitespaceEndIndex(line))

\* Value::split_whitespace
SplitWhitespace(str) ==
    LET k == WhitespaceEndIndex(str)
        whitespace == SubSeq(str, 1, k)
        other == SubSeq(str, k + 1, Len(str))
        parsed == IndentFromStr(whitespace)
    IN  IF parsed.res # "Ok" THEN parsed
        ELSE Ok([indent |-> parsed.val, other |-> other])

MkValue(ind, key, value, children) ==
    [type |-> "Value", indent |-> ind, key |-> key, value |-> value,
     children |-> children]

\* Line::Comment and Line::Blank; Line::Value(v) is v itself
Comment(ind, comment) == [type |-> "Comment", indent |-> ind, comment |-> comment]
Blank(str) == [type |-> "Blank", text |-> str]

\* A from_indent_str that splits at the first whitespace character
FromIndentStrAnyWhitespace(ind, line) ==
    LET ws == {i \in 1..Len(line) : IsWhitespace(line[i])}
    IN  IF ws = {} THEN MkValue(ind, line, None, <<>>)
        ELSE LET i == Min(ws)
                 key == SubSeq(line, 1, i - 1)
                 value == SubSeq(line, i + 1, Len(line))
             IN  IF value = <<>> THEN MkValue(ind, key, None, <<>>)
                 ELSE MkValue(ind, key, Some(value), <<>>)

\* Value::from_indent_str: split_once(' ')
FromIndentStr(ind, line) ==
    LET sp == {i \in 1..Len(line) : line[i] = SP}
    IN  IF sp = {} THEN MkValue(ind, line, None, <<>>)
        ELSE LET i == Min(sp)
                 key == SubSeq(line, 1, i - 1)
                 value == SubSeq(line, i + 1, Len(line))
             IN  IF value = <<>> THEN MkValue(ind, key, None, <<>>)
                 ELSE MkValue(ind, key, Some(value), <<>>)

\* Value::from_str
ValueFromStr(line) ==
    LET split == SplitWhitespace(line)
    IN  IF split.res # "Ok" THEN split
        ELSE Ok(FromIndentStr(split.val.indent, split.val.other))

\* Value::new
ValueNew(key, value) == MkValue(Empty, key, value, <<>>)

RECURSIVE DisplayValue(_), DisplayLine(_), DisplayLines(_)

\* A Display for Value that writes the space whether or not there is a value
DisplayValueAlwaysSpace(v) ==
    DisplayIndent(v.indent) \o v.key \o <<SP>>
        \o (IF v.value.some THEN v.value.v ELSE <<>>) \o <<NL>>
        \o DisplayLines(v.children)

\* A Display for Line that writes a comment without its indentation
DisplayLineCommentAtMargin(l) ==
    CASE l.type = "Blank" -> l.text \o <<NL>>
      [] l.type = "Comment" -> <<HASH>> \o l.comment \o <<NL>>
      [] l.type = "Value" -> DisplayValue(l)

\* A Display for Line that writes every blank line as an empty line
DisplayLineBlankEmpty(l) ==
    CASE l.type = "Blank" -> <<NL>>
      [] l.type = "Comment" -> DisplayIndent(l.indent) \o <<HASH>> \o l.comment \o <<NL>>
      [] l.type = "Value" -> DisplayValue(l)

\* A Display for Value that writes the children before the entry's own line
DisplayValueChildrenFirst(v) ==
    DisplayLines(v.children)
    \o (IF v.value.some
        THEN DisplayIndent(v.indent) \o v.key \o <<SP>> \o v.value.v \o <<NL>>
        ELSE DisplayIndent(v.indent) \o v.key \o <<NL>>)

\* impl fmt::Display for Value, impl fmt::Display for Line
DisplayValue(v) ==
    (IF v.value.some
     THEN DisplayIndent(v.indent) \o v.key \o <<SP>> \o v.value.v \o <<NL>>
     ELSE DisplayIndent(v.indent) \o v.key \o <<NL>>)
    \o DisplayLines(v.children)

DisplayLine(l) ==
    CASE l.type = "Blank" -> l.text \o <<NL>>
      [] l.type = "Comment" -> DisplayIndent(l.indent) \o <<HASH>> \o l.comment \o <<NL>>
      [] l.type = "Value" -> DisplayValue(l)

\* for child in children { write!(f, "{child}") }
DisplayLines(ls) ==
    IF ls = <<>> THEN <<>> ELSE DisplayLine(Head(ls)) \o DisplayLines(Tail(ls))

\* The indices in S in ascending order
RECURSIVE Ascending(_)
Ascending(S) == IF S = {} THEN <<>> ELSE <<Min(S)>> \o Ascending(S \ {Min(S)})

\* Value::values: ValueIterator walks the children in stored order and
\* yields the Line::Value entries.  A reference to a child is modelled as
\* its index in the children list.
ValueIndices(children) ==
    Ascending({i \in 1..Len(children) : children[i].type = "Value"})

\* The text an entry is known by: a key, a comment's text, a blank line's text
EntryText(l) ==
    CASE l.type = "Value" -> l.key
      [] l.type = "Comment" -> l.comment
      [] l.type = "Blank" -> l.text

\* A child lookup that walks every entry and compares its text with the key
ChildAnyEntry(children, key) ==
    LET hits == {i \in 1..Len(children) : EntryText(children[i]) = key}
    IN  IF hits = {} THEN 0 ELSE Min(hits)

\* A children lookup that returns the matches last to first
RECURSIVE Reversed(_)
Reversed(q) == IF q = <<>> THEN <<>> ELSE Append(Reversed(Tail(q)), Head(q))

ChildrenLastFirst(children, key) ==
    Reversed(SelectSeq(ValueIndices(children), LAMBDA i : children[i].key = key))

\* Value::child and Value::child_mut: values().find(..), 0 for None
Child(children, key) ==
    LET hits == SelectSeq(ValueIndices(children), LAMBDA i : children[i].key = key)
    IN  IF hits = <<>> THEN 0 ELSE Head(hits)

\* Value::children and Value::children_mut: values().filter(..).collect()
Children(children, key) ==
    SelectSeq(ValueIndices(children), LAMBDA i : children[i].key = key)

\* Value::has_child: values().any(..)
HasChild(children, key) ==
    \E n \in 1..Len(ValueIndices(children)) :
        children[ValueIndices(children)[n]].key = key

----------------------------------------------------------------------------
(* lib.rs: Confindent and ConfSection *)

\* enum ConfItem
ItemEmpty == [item |-> "Empty", text |-> <<>>]
ItemText(str) == [item |-> "Text", text |-> str]

\* ConfSection::new
ConfSectionNew(key, value, indent_level, children) ==
    [key |-> key, value |-> value, indent_level |-> indent_level,
     children |-> children]

\* The loop of ConfSection::parse: a tab or two spaces is one level
RECURSIVE StripIndent(_, _)
StripIndent(workable, indent_level) ==
    IF Len(workable) >= 1 /\ workable[1] = TAB
    THEN StripIndent(SubSeq(workable, 2, Len(workable)), indent_level + 1)
    ELSE IF Len(workable) >= 2 /\ workable[1] = SP /\ workable[2] = SP
    THEN StripIndent(SubSeq(workable, 3, Len(workable)), indent_level + 1)
    ELSE [workable |-> workable, indent_level |-> indent_level]

\* str::split(char::is_whitespace): the pieces between whitespace characters
RECURSIVE SplitAtWhitespace(_)
SplitAtWhitespace(str) ==
    LET ws == {i \in 1..Len(str) : IsWhitespace(str[i])}
    IN  IF ws = {} THEN <<str>>
        ELSE <<SubSeq(str, 1, Min(ws) - 1)>>
             \o SplitAtWhitespace(SubSeq(str, Min(ws) + 1, Len(str)))

\* ConfSection::parse: the section of a line, None for a blank line
ConfSectionParse(str) ==
    IF str = <<>> \/ TrimIsEmpty(str) THEN None
    ELSE LET stripped == StripIndent(str, 0)
             split == SplitAtWhitespace(stripped.workable)
             value == IF Len(split) >= 2 THEN ItemText(split[2]) ELSE ItemEmpty
         IN  Some(ConfSectionNew(split[1], value, stripped.indent_level, <<>>))

\* An add_section that looks for a section of the same level
AddSectionTargetSameLevel(secs, cs) ==
    IF secs = <<>> \/ cs.indent_level = 0 THEN 0
    ELSE LET found == {i \in 1..Len(secs) :
                          secs[i].indent_level = cs.indent_level}
         IN  IF found = {} THEN 0 ELSE Max(found)

\* Confindent::add_section, the place it picks: 0 for the top level, else
\* the index of the top-level section that takes the new one as a child.
\* indent_level is a u8; no line of the model comes near 255 levels.
AddSectionTarget(secs, cs) ==
    IF secs = <<>> \/ cs.indent_level = 0 THEN 0
    ELSE LET found == {i \in 1..Len(secs) :
                          secs[i].indent_level = cs.indent_level - 1}
         IN  IF found = {} THEN 0 ELSE Max(found)    \* iter_mut().rev()

\* Confindent::add_section
AddSection(secs, cs) ==
    LET target == AddSectionTarget(secs, cs)
    IN  IF target = 0 THEN Append(secs, cs)
        ELSE [secs EXCEPT ![target].children = Append(@, cs)]

\* The path of child indices at which add_section puts the section
AddSectionPath(secs, cs) ==
    LET target == AddSectionTarget(secs, cs)
    IN  IF target = 0 THEN <<Len(secs) + 1>>
        ELSE <<target, Len(secs[target].children) + 1>>

----------------------------------------------------------------------------
(* The document driver of the Value/Line generation.  Its source is not     *)
(* among the files; it follows sections 4.2, 4.3 and 7 of the               *)
(* specification and calls the tokenizer, classifier and delta_from above.  *)

\* A ParseError that numbers the lines from 0
ParseErrorZeroBased(line, kind) == [line |-> line - 1, kind |-> kind]

\* error.rs: struct ParseError { line, kind }
ParseError(line, kind) == [line |-> line, kind |-> kind]
NoError == ParseError(0, "NoError")

EmptyDoc == [children |-> <<>>, path |-> <<>>, origin |-> "from_str"]

\* The lines of a text: str::lines() splits at every newline and yields no
\* empty last line after a final newline
RECURSIVE SplitLines(_)
SplitLines(chars) ==
    LET nl == {i \in 1..Len(chars) : chars[i] = NL}
    IN  IF chars = <<>> THEN <<>>
        ELSE IF nl = {} THEN <<chars>>
        ELSE <<SubSeq(chars, 1, Min(nl) - 1)>>
             \o SplitLines(SubSeq(chars, Min(nl) + 1, Len(chars)))

\* A tokenizer without comments: every line that is not blank is a key/value
\* line
DocTokenizeNoComments(line) ==
    IF TrimIsEmpty(line) THEN Ok(Blank(line))
    ELSE LET split == SplitWhitespace(line)
         IN  IF split.res # "Ok" THEN split
             ELSE Ok(FromIndentStr(split.val.indent, split.val.other))

\* Section 4.2: Blank, Comment or key/value line
DocTokenize(line) ==
    IF TrimIsEmpty(line) THEN Ok(Blank(line))
    ELSE LET split == SplitWhitespace(line)
         IN  IF split.res # "Ok" THEN split
             ELSE IF Head(split.val.other) = HASH
                  THEN Ok(Comment(split.val.indent, Tail(split.val.other)))
                  ELSE Ok(FromIndentStr(split.val.indent, split.val.other))

\* The node a path of child indices leads to
RECURSIVE NodeAt(_, _)
NodeAt(children, path) ==
    IF Len(path) = 1 THEN children[Head(path)]
    ELSE NodeAt(children[Head(path)].children, Tail(path))

\* The children list with the line appended below the node at the path
RECURSIVE AppendAt(_, _, _)
AppendAt(children, path, line) ==
    IF path = <<>> THEN Append(children, line)
    ELSE [children EXCEPT
            ![Head(path)].children = AppendAt(@, Tail(path), line)]

\* Index of the last Node among the children, 0 when there is none
LastValueIndex(children) ==
    LET idx == {i \in 1..Len(children) : children[i].type = "Value"}
    IN  IF idx = {} THEN 0 ELSE Max(idx)

\* Attach the value as the last child of the open ancestor at depth k; it
\* becomes the deepest open node
DocAttach(d, v, k) ==
    LET p == SubSeq(d.path, 1, k)
        x == NodeAt(d.children, p)
    IN  Ok([d EXCEPT !.children = AppendAt(d.children, p, v),
                     !.path = Append(p, Len(x.children) + 1)])

\* Section 4.3 step 3: walk the open ancestors from the deepest one upward
RECURSIVE DocWalk(_, _, _)
DocWalk(d, v, k) ==
    LET x == NodeAt(d.children, SubSeq(d.path, 1, k))
        li == LastValueIndex(x.children)
        ref == IF li = 0 THEN x.indent ELSE x.children[li].indent
        delta == DeltaFrom(v.indent, ref)
    IN  IF delta.res # "Ok" THEN delta
        ELSE IF li = 0 /\ (x.indent.tag = "Empty" \/ v.indent.count > x.indent.count)
             THEN DocAttach(d, [v EXCEPT !.indent = delta.val], k)
        ELSE IF li # 0 /\ v.indent.count = ref.count
             THEN DocAttach(d, [v EXCEPT !.indent = ref], k)
        ELSE IF k > 1 THEN DocWalk(d, v, k - 1)
        ELSE DocAttach(d, v, k)

\* Section 4.3 steps 1 and 2, then the walk
DocPush(d, v) ==
    IF v.indent.tag = "Empty"
    THEN Ok([d EXCEPT !.children = Append(d.children, v),
                      !.path = <<Len(d.children) + 1>>])
    ELSE IF d.path = <<>> THEN Err("StartedIndented")
    ELSE DocWalk(d, v, Len(d.path))

\* A parser that puts every blank line and comment at the top level
DocParseLineBlanksAtTop(d, line) ==
    LET tok == DocTokenize(line)
    IN  IF tok.res # "Ok" THEN tok
        ELSE IF tok.val.type = "Value" THEN DocPush(d, tok.val)
        ELSE Ok([d EXCEPT !.children = Append(d.children, tok.val)])

\* One line of the text: blank lines and comments go below the deepest open
\* node, key/value lines are pushed
DocParseLine(d, line) ==
    LET tok == DocTokenize(line)
    IN  IF tok.res # "Ok" THEN tok
        ELSE IF tok.val.type = "Value" THEN DocPush(d, tok.val)
        ELSE Ok([d EXCEPT !.children = AppendAt(d.children, d.path, tok.val)])

\* The whole parse: the forest, or the first error with its 1-based line
RECURSIVE DocParseLines(_, _, _)
DocParseLines(d, lines, n) ==
    IF lines = <<>> THEN Ok(d.children)
    ELSE LET r == DocParseLine(d, Head(lines))
         IN  IF r.res = "Ok" THEN DocParseLines(r.val, Tail(lines), n + 1)
             ELSE IF r.res = "Err"
                  THEN [res |-> "Err", val |-> ParseError(n, r.kind), kind |-> r.kind]
             ELSE r

DocFromStr(chars) == DocParseLines(EmptyDoc, SplitLines(chars), 1)

\* Section 4.4: every top-level entry in stored order
DocSerialize(children) == DisplayLines(children)

\* The text whose lines are the given ones, each ended by a newline
RECURSIVE TextOf(_)
TextOf(lines) ==
    IF lines = <<>> THEN <<>> ELSE Head(lines) \o <<NL>> \o TextOf(Tail(lines))

----------------------------------------------------------------------------
(* Indent::from_str applied to every bounded string *)

MaxIndentLen == 3

IndentAlphabet == {TAB, SP, FF, "A"}

IdleLegacy == sections = <<>> /\ pos = <<>>
IdleDoc ==
    /\ doc = EmptyDoc
    /\ err = NoError /\ pc = "idle" /\ out = <<>> /\ re = NotRun

IdleLine == rawline = <<>> /\ lineTok = NotRun /\ lineOut = None

\* No lookup was made
NotLooked ==
    [parent |-> <<>>, key |-> <<>>, op |-> "-",
     child |-> 0, children |-> <<>>, has |-> FALSE]
IdleLookup == lookup = NotLooked /\ cursor = 0

IdleDelta == refIndent = Empty /\ deltaRes = NotRun

IdleEq == eqStack = <<>> /\ eqOut = "-"

InitIndent ==
    /\ s \in Strs(IndentAlphabet, MaxIndentLen)
    /\ indent = NotRun
    /\ text = <<>>
    /\ IdleLegacy
    /\ IdleDoc
    /\ IdleLine
    /\ IdleLookup
    /\ IdleDelta
    /\ IdleEq

IndentParse ==
    /\ indent = NotRun
    /\ indent' = IndentFromStr(s)
    /\ UNCHANGED <<deltaVars, eqVars, s, text, legacyVars, docVars, lineVars, lookupVars>>

NextIndent == IndentParse

SpecIndent == InitIndent /\ [][NextIndent]_vars

----------------------------------------------------------------------------
(* Indent::delta_from applied to the indent Indent::from_str makes of a     *)
(* run of tabs and spaces, against every bounded reference indent           *)

DeltaAlphabet == {TAB, SP}

\* The indents a line before may carry: what from_str returns for a run
ReferenceIndents ==
    {Empty} \cup {Tabs(c, c) : c \in 1..MaxIndentLen}
            \cup {Spaces(c, c) : c \in 1..MaxIndentLen}

InitDelta ==
    /\ s \in Strs(DeltaAlphabet, MaxIndentLen)
    /\ indent = NotRun
    /\ text = <<>>
    /\ IdleLegacy
    /\ IdleDoc
    /\ IdleLine
    /\ IdleLookup
    /\ refIndent \in ReferenceIndents
    /\ deltaRes = NotRun
    /\ IdleEq

\* indent.delta_from(&other) on the indent from_str returned
DeltaFromCall ==
    /\ indent.res = "Ok"
    /\ deltaRes = NotRun
    /\ deltaRes' = DeltaFrom(indent.val, refIndent)
    /\ UNCHANGED <<indentVars, text, legacyVars, docVars, lineVars, lookupVars, refIndent,
                   eqVars>>

NextDelta == IndentParse \/ DeltaFromCall

SpecDelta == InitDelta /\ [][NextDelta]_vars

\* C23: an indent checked against a reference of the other style gives
\* TabsWithSpaces exactly when the indent is tabs and the reference spaces
\* (a tabular indent in a space block), and SpacesWithTabs exactly when the
\* indent is spaces and the reference tabs (a space indent in a tab block)
MismatchKindDirection ==
    (/\ deltaRes # NotRun
     /\ indent.val.tag # "Empty" /\ refIndent.tag # "Empty"
     /\ indent.val.tag # refIndent.tag) =>
        /\ deltaRes.res = "Err"
        /\ deltaRes.kind = "TabsWithSpaces"
              <=> (indent.val.tag = "Tabs" /\ refIndent.tag = "Spaces")
        /\ deltaRes.kind = "SpacesWithTabs"
              <=> (indent.val.tag = "Spaces" /\ refIndent.tag = "Tabs")

----------------------------------------------------------------------------
(* error.rs: impl PartialEq for ValueParseError, one call or return a step. *)
(* The == of line 96 compares two references to ValueParseError, which is   *)
(* PartialEq::eq of ValueParseError itself: a nested call of the function.  *)

StackLimit == 8

\* <T as FromStr>::Err, a type with a PartialEq of its own
InnerErrors == {"e1", "e2", "e3"}

\* enum ValueParseError
NoValue == [tag |-> "NoValue", e |-> "-"]
ValueParseErrorOf(e) == [tag |-> "ParseError", e |-> e]

ValueParseErrors == {NoValue} \cup {ValueParseErrorOf(e) : e \in InnerErrors}

\* A call of eq that has just been entered: it is at line 96 and has no
\* return value yet
EqFrame(a, b) == [self |-> a, other |-> b, at |-> "96", ret |-> "-"]

BoolText(b) == IF b THEN "true" ELSE "false"

\* Lines 98-106: the else branches of eq
EqElse(f) ==
    IF f.self.tag = "ParseError"
    THEN IF f.other.tag = "ParseError" THEN BoolText(f.self.e = f.other.e)
         ELSE "false"
    ELSE "false"

InitEq ==
    /\ s = <<>> /\ indent = NotRun
    /\ text = <<>>
    /\ IdleLegacy
    /\ IdleDoc
    /\ IdleLine
    /\ IdleLookup
    /\ IdleDelta
    /\ IdleEq

\* a == b on two ValueParseError values
EqCall(a, b) ==
    /\ eqStack = <<>>
    /\ eqStack' = <<EqFrame(a, b)>>
    /\ UNCHANGED <<indentVars, text, legacyVars, docVars, lineVars, lookupVars, deltaVars,
                   eqOut>>

\* The innermost call goes on: at line 96 it calls eq(self, &NoValue); a
\* call with a return value hands it to its caller, which goes on with the
\* second operand of the && (a call of eq(other, &NoValue)), with true, or
\* with lines 98-106; the outermost call hands it to the comparison
EqStep ==
    /\ eqStack # <<>> /\ eqOut = "-"
    /\ LET n == Len(eqStack)
           top == eqStack[n]
       IN  IF top.ret = "-"
           THEN /\ n < StackLimit
                /\ eqStack' = Append([eqStack EXCEPT ![n].at = "96 self"],
                                     EqFrame(top.self, NoValue))
                /\ eqOut' = eqOut
           ELSE IF n = 1
           THEN eqOut' = top.ret /\ eqStack' = eqStack
           ELSE LET caller == eqStack[n - 1]
                    below == SubSeq(eqStack, 1, n - 2)
                IN  /\ eqOut' = eqOut
                    /\ eqStack' =
                          IF top.ret = "false"
                          THEN Append(below, [caller EXCEPT !.ret = EqElse(caller)])
                          ELSE IF caller.at = "96 self"
                          THEN below \o <<[caller EXCEPT !.at = "96 other"],
                                          EqFrame(caller.other, NoValue)>>
                          ELSE Append(below, [caller EXCEPT !.ret = "true"])
    /\ UNCHANGED <<indentVars, text, legacyVars, docVars, lineVars, lookupVars, deltaVars>>

\* The stack has no room for the frame of the next call: the thread
\* overflows its stack and the process is aborted
EqOverflow ==
    /\ eqStack # <<>> /\ eqOut = "-"
    /\ Len(eqStack) = StackLimit
    /\ eqStack[Len(eqStack)].ret = "-"
    /\ eqOut' = "stack overflow"
    /\ UNCHANGED <<indentVars, text, legacyVars, docVars, lineVars, lookupVars, deltaVars,
                   eqStack>>

NextEq ==
    \/ \E a \in ValueParseErrors, b \in ValueParseErrors : EqCall(a, b)
    \/ EqStep
    \/ EqOverflow

\* The comparison is never left half-way: a call or return that can be
\* made is made
SpecEq == InitEq /\ [][NextEq]_vars /\ WF_vars(NextEq)

\* C26: comparing two ValueParseError values with == returns after a finite
\* number of steps, true exactly when both are NoValue or both are
\* ParseError with equal inner errors, and false otherwise
EqTerminates ==
    /\ [](eqStack # <<>> => <>(eqOut \in {"true", "false"}))
    /\ [](eqOut \in {"true", "false"} =>
            (eqOut = "true" <=> eqStack[1].self = eqStack[1].other))

----------------------------------------------------------------------------
(* impl FromStr for Confindent (lib.rs), one line at a time.  The early      *)
(* return for a text of whitespace only changes nothing: each of its lines   *)
(* is skipped by ConfSection::parse.                                         *)

MaxSections == 4

LegacyIndents == {<<>>, <<TAB>>, <<TAB, TAB>>, <<SP, SP>>, <<SP, SP, SP, SP>>}

LegacyBodies == {<<"A", SP, "1">>, <<"B">>}

LegacyLines == {i \o b : i \in LegacyIndents, b \in LegacyBodies} \cup {<<>>}

Init ==
    /\ s = <<>> /\ indent = NotRun
    /\ text = <<>>
    /\ sections = <<>>
    /\ pos = <<>>
    /\ IdleDoc
    /\ IdleLine
    /\ IdleLookup
    /\ IdleDelta
    /\ IdleEq

\* for line in lines: Some(v) => ret.add_section(v)
ReadSection(line) ==
    /\ Len(text) < MaxSections
    /\ ConfSectionParse(line).some
    /\ text' = Append(text, line)
    /\ sections' = AddSection(sections, ConfSectionParse(line).v)
    /\ pos' = Append(pos, AddSectionPath(sections, ConfSectionParse(line).v))
    /\ UNCHANGED <<deltaVars, eqVars, indentVars, lineVars, lookupVars, docVars>>

\* for line in lines: None => continue
SkipLine(line) ==
    /\ Len(text) < MaxSections
    /\ ~ConfSectionParse(line).some
    /\ text' = Append(text, line)
    /\ pos' = Append(pos, <<>>)
    /\ UNCHANGED <<deltaVars, eqVars, indentVars, lineVars, lookupVars, docVars, sections>>

Next ==
    \/ \E line \in LegacyLines : ReadSection(line)
    \/ \E line \in LegacyLines : SkipLine(line)

Spec == Init /\ [][Next]_vars

----------------------------------------------------------------------------
(* The document pipeline: parse a text line by line (or build a document    *)
(* with Value::new), serialize it, parse the output again                   *)

MaxLines == 3

DocIndents ==
    {<<>>, <<TAB>>, <<TAB, TAB>>, <<SP>>, <<SP, SP>>, <<SP, TAB>>, <<TAB, SP>>, <<FF>>}

DocBodies == {<<"A">>, <<"A", SP, "1">>, <<"A", SP>>, <<HASH, "c">>}

DocLines ==
    {i \o b : i \in DocIndents, b \in DocBodies} \cup {<<>>, <<SP, TAB>>}

NewKeys == {<<"A">>, <<"A", SP, "B">>}
NewValues == {None, Some(<<"1">>), Some(<<>>), Some(<<SP, "1">>)}

InitDoc ==
    /\ s = <<>> /\ indent = NotRun
    /\ text = <<>>
    /\ IdleLegacy
    /\ doc = EmptyDoc
    /\ err = NoError /\ pc = "parsing" /\ out = <<>> /\ re = NotRun
    /\ IdleLine
    /\ IdleLookup
    /\ IdleDelta
    /\ IdleEq

\* from_str consumes the next line and the line is accepted
DocLineOk(line) ==
    /\ pc = "parsing"
    /\ Len(text) < MaxLines
    /\ DocParseLine(doc, line).res = "Ok"
    /\ text' = Append(text, line)
    /\ doc' = DocParseLine(doc, line).val
    /\ UNCHANGED <<deltaVars, eqVars, indentVars, lineVars, lookupVars, legacyVars, err, pc, out, re>>

\* from_str consumes the next line and returns its error
DocLineErr(line) ==
    /\ pc = "parsing"
    /\ Len(text) < MaxLines
    /\ DocParseLine(doc, line).res = "Err"
    /\ text' = Append(text, line)
    /\ err' = ParseError(Len(text) + 1, DocParseLine(doc, line).kind)
    /\ pc' = "failed"
    /\ UNCHANGED <<deltaVars, eqVars, indentVars, lineVars, lookupVars, legacyVars, doc, out, re>>

\* from_str consumes the next line and Indent::from_str panics
DocLinePanic(line) ==
    /\ pc = "parsing"
    /\ Len(text) < MaxLines
    /\ DocParseLine(doc, line).res = "Panic"
    /\ text' = Append(text, line)
    /\ pc' = "panicked"
    /\ UNCHANGED <<deltaVars, eqVars, indentVars, lineVars, lookupVars, legacyVars, doc, err, out, re>>

\* The text ends: from_str returns the document
DocEnd ==
    /\ pc = "parsing"
    /\ pc' = "parsed"
    /\ UNCHANGED <<deltaVars, eqVars, indentVars, lineVars, lookupVars, legacyVars, text, doc, err, out, re>>

\* A document holding one node built with Value::new
DocNew(key, value) ==
    /\ pc = "parsing"
    /\ text = <<>>
    /\ doc' = [children |-> <<ValueNew(key, value)>>, path |-> <<1>>, origin |-> "new"]
    /\ pc' = "parsed"
    /\ UNCHANGED <<deltaVars, eqVars, indentVars, lineVars, lookupVars, legacyVars, text, err, out, re>>

\* The document is serialized
DocWrite ==
    /\ pc = "parsed"
    /\ out' = DocSerialize(doc.children)
    /\ pc' = "written"
    /\ UNCHANGED <<deltaVars, eqVars, indentVars, lineVars, lookupVars, legacyVars, text, doc, err, re>>

\* The serializer's output is parsed
DocReparse ==
    /\ pc = "written"
    /\ re' = DocFromStr(out)
    /\ pc' = "reparsed"
    /\ UNCHANGED <<deltaVars, eqVars, indentVars, lineVars, lookupVars, legacyVars, text, doc, err, out>>

NextDoc ==
    \/ \E line \in DocLines : DocLineOk(line)
    \/ \E line \in DocLines : DocLineErr(line)
    \/ \E line \in DocLines : DocLinePanic(line)
    \/ DocEnd
    \/ \E key \in NewKeys, value \in NewValues : DocNew(key, value)
    \/ DocWrite
    \/ DocReparse

SpecDoc == InitDoc /\ [][NextDoc]_vars

----------------------------------------------------------------------------
(* Properties of the document pipeline *)

\* C1: the serialization of a document parsed from a text that ends in a
\* newline is that text, character for character
RoundTripIdentity ==
    (pc \in {"written", "reparsed"} /\ doc.origin = "from_str")
        => out = TextOf(text)

\* C2: parsing the serialization of any document, one built with Value::new
\* included, succeeds and yields a document equal to the original
SerializeThenParseEqual ==
    pc = "reparsed" => (re.res = "Ok" /\ re.val = doc.children)

\* A run of tabs and spaces that holds both
MixedRun(run) == Range(run) = {TAB, SP}

\* C7: a non-blank line whose leading run of tabs and spaces holds both a tab
\* and a space ends the parse with MixedIndent at that line's 1-based number
MixedIndentAtLine ==
    \A n \in 1..Len(text) :
        (~TrimIsEmpty(text[n]) /\ MixedRun(LeadingRun(text[n])))
            => (pc = "failed" /\ err = ParseError(n, "MixedIndent"))

\* A parse failed with MixedIndent after its first line
MixedIndentReached ==
    pc = "failed" /\ err.kind = "MixedIndent" /\ err.line > 1

\* The indentation token of a key/value line, Empty when it has none
TokenOf(line) ==
    LET tok == DocTokenize(line)
    IN  IF tok.res = "Ok" /\ tok.val.type = "Value" THEN tok.val.indent ELSE Empty

\* An open ancestor of the document is indented in the other style
StyleConflict(d, line) ==
    /\ TokenOf(line).tag # "Empty"
    /\ \E k \in 1..Len(d.path) :
          NodeAt(d.children, SubSeq(d.path, 1, k)).indent.tag
              \notin {"Empty", TokenOf(line).tag}

----------------------------------------------------------------------------
(* Properties of the tree lib.rs builds.  A line's indentation token is what *)
(* Indent::from_str makes of its leading whitespace.                         *)

\* Line n of the text gave a section
IsSection(n) == pos[n] # <<>>

\* Line n has an indentation token
HasToken(n) == IndentFromStr(LeadingRun(text[n])).res = "Ok"

Token(n) == IndentFromStr(LeadingRun(text[n])).val

Parent(path) == SubSeq(path, 1, Len(path) - 1)

Last(path) == path[Len(path)]

\* n and m are consecutive key/value lines
Consecutive(n, m) ==
    /\ n < m /\ IsSection(n) /\ IsSection(m)
    /\ \A j \in (n + 1)..(m - 1) : ~IsSection(j)

\* The lines before m whose sections are children of the node at the path
ChildrenBefore(path, m) ==
    {j \in 1..(m - 1) : IsSection(j) /\ Parent(pos[j]) = path}

\* The token of line m has the style of line n's and a larger count
Deeper(n, m) ==
    /\ HasToken(n) /\ HasToken(m)
    /\ Token(n).tag = Token(m).tag
    /\ Token(m).count > Token(n).count

\* C3: a key/value line indented deeper than the key/value line before it
\* becomes a child of that line's node, at every depth; lines of 0, 1 and 2
\* tabs give one top-level node, its sole child and that child's sole child
DepthNesting ==
    /\ \A n, m \in 1..Len(text) :
          (Consecutive(n, m) /\ Deeper(n, m)) => Parent(pos[m]) = pos[n]
    /\ (/\ Len(text) = 3
        /\ \A n \in 1..3 : IsSection(n) /\ LeadingRun(text[n]) = Repeat(TAB, n - 1))
          => (/\ Len(sections) = 1
              /\ Len(sections[1].children) = 1
              /\ Len(sections[1].children[1].children) = 1)

\* C4: a key/value line with the token of the last Node child of an open
\* ancestor becomes the next child of that ancestor; two consecutive lines
\* with the same token other than Empty become siblings in file order
SiblingAttach ==
    \A n, m \in 1..Len(text) :
        (Consecutive(n, m) /\ HasToken(m)) =>
            /\ \A k \in 0..(Len(pos[n]) - 1) :
                  LET anc == SubSeq(pos[n], 1, k)
                      before == ChildrenBefore(anc, m)
                  IN  (/\ before # {}
                       /\ HasToken(Max(before))
                       /\ Token(Max(before)).tag = Token(m).tag
                       /\ Token(Max(before)).count = Token(m).count)
                        => (/\ Parent(pos[m]) = anc
                            /\ Last(pos[m]) = Cardinality(before) + 1
                            /\ Last(pos[m]) = Len(IF anc = <<>> THEN sections
                                                  ELSE sections[anc[1]].children)
                                              - Cardinality({j \in (m + 1)..Len(text) :
                                                    IsSection(j) /\ Parent(pos[j]) = anc}))
            /\ (HasToken(n) /\ Token(n) = Token(m) /\ Token(m).tag # "Empty")
                  => (/\ Parent(pos[m]) = Parent(pos[n])
                      /\ Last(pos[m]) = Last(pos[n]) + 1)

\* Two consecutive lines with the same token other than Empty became the
\* first and second child of a top-level section
SiblingsReached ==
    \E n, m \in 1..Len(text) :
        /\ Consecutive(n, m)
        /\ HasToken(n) /\ HasToken(m)
        /\ Token(n) = Token(m) /\ Token(m).tag # "Empty"
        /\ Len(pos[n]) = 2 /\ Parent(pos[m]) = Parent(pos[n])
        /\ Len(sections[pos[n][1]].children) >= 2

\* C5: a key/value line without indentation becomes the last top-level
\* entry, and the indented lines after it, up to the next line without
\* indentation, are attached beneath it
DedentToRoot ==
    \A n \in 1..Len(text) :
        (IsSection(n) /\ LeadingRun(text[n]) = <<>>) =>
            /\ pos[n] = <<Cardinality(ChildrenBefore(<<>>, n)) + 1>>
            /\ \A m \in (n + 1)..Len(text) :
                  (/\ IsSection(m)
                   /\ \A j \in (n + 1)..m : LeadingRun(text[j]) # <<>>)
                     => (Len(pos[m]) > 1 /\ pos[m][1] = pos[n][1])

\* C6: an indented first key/value line is never accepted as a top-level
\* entry (the parse fails with StartedIndented at that line)
StartedIndentedRejected ==
    \A n \in 1..Len(text) :
        (/\ IsSection(n)
         /\ \A j \in 1..(n - 1) : ~IsSection(j)
         /\ LeadingRun(text[n]) # <<>>)
          => Len(pos[n]) # 1

\* C18: all Nodes with the same parent, the top-level Nodes among
\* themselves included, carry the same indentation token: same tag, same
\* count
SiblingTokens ==
    \A n, m \in 1..Len(text) :
        (IsSection(n) /\ IsSection(m) /\ Parent(pos[n]) = Parent(pos[m])) =>
            /\ HasToken(n) /\ HasToken(m)
            /\ Token(n).tag = Token(m).tag
            /\ Token(n).count = Token(m).count

\* C25: every Node child carries an indentation token other than Empty
\* whose count is greater than the count of its parent's token, Empty
\* counting as 0: no line is attached below a node indented as deep as or
\* deeper than itself
ChildrenDeeper ==
    \A n, m \in 1..Len(text) :
        (IsSection(n) /\ IsSection(m) /\ Len(pos[m]) > 1 /\ pos[n] = Parent(pos[m])) =>
            /\ HasToken(n) /\ HasToken(m)
            /\ Token(m).tag # "Empty"
            /\ Token(m).count > Token(n).count

----------------------------------------------------------------------------
(* Properties of Indent::from_str *)

\* C9: the empty string gives Empty, n tabs give Tabs(n), n spaces give
\* Spaces(n), and a string of tabs and spaces holding both gives MixedIndent
IndentClassifierResult ==
    indent # NotRun =>
        /\ s = <<>> => indent = Ok(Empty)
        /\ Range(s) = {TAB} =>
              (indent.res = "Ok" /\ indent.val.tag = "Tabs"
                 /\ indent.val.count = Len(s))
        /\ Range(s) = {SP} =>
              (indent.res = "Ok" /\ indent.val.tag = "Spaces"
                 /\ indent.val.count = Len(s))
        /\ Range(s) = {TAB, SP} => indent = Err("MixedIndent")

\* from_str met the foreign character at the last position
MixedAtEndReached ==
    /\ indent = Err("MixedIndent")
    /\ Len(s) = MaxIndentLen
    /\ \A i \in 1..(Len(s) - 1) : s[i] = s[1]

\* C10: from_str panics exactly when its argument holds a character that is
\* not whitespace
IndentClassifierTotal ==
    indent # NotRun =>
        (indent.res = "Panic" <=> \E i \in 1..Len(s) : ~IsWhitespace(s[i]))

----------------------------------------------------------------------------
(* One line at a time: Value::from_str, the tokenizer of section 4.2 and    *)
(* Value::new applied to a line, and Display applied to what they return    *)

MaxLineLen == 4

LineAlphabet == {TAB, SP, HASH, "A", "B"}

InitLine ==
    /\ s = <<>> /\ indent = NotRun
    /\ text = <<>>
    /\ IdleLegacy
    /\ doc = EmptyDoc
    /\ err = NoError /\ pc = "line" /\ out = <<>> /\ re = NotRun
    /\ rawline \in Strs(LineAlphabet, MaxLineLen)
    /\ lineTok = NotRun
    /\ lineOut = None
    /\ IdleLookup
    /\ IdleDelta
    /\ IdleEq

\* Value::from_str(line)
ValueParse ==
    /\ pc = "line"
    /\ lineTok' = ValueFromStr(rawline)
    /\ pc' = "from_str"
    /\ UNCHANGED <<deltaVars, eqVars, indentVars, legacyVars, text, doc, err, out, re, rawline, lineOut, lookupVars>>

\* The tokenizer of section 4.2 on the line
LineTokenize ==
    /\ pc = "line"
    /\ lineTok' = DocTokenize(rawline)
    /\ pc' = "tokenized"
    /\ UNCHANGED <<deltaVars, eqVars, indentVars, legacyVars, text, doc, err, out, re, rawline, lineOut, lookupVars>>

\* Value::new(key, value)
LineNew(key, value) ==
    /\ pc = "line"
    /\ rawline = <<>>
    /\ lineTok' = Ok(ValueNew(key, value))
    /\ pc' = "new"
    /\ UNCHANGED <<deltaVars, eqVars, indentVars, legacyVars, text, doc, err, out, re, rawline, lineOut, lookupVars>>

\* ConfSection::parse(line), the tokenizer of lib.rs
SectionParse ==
    /\ pc = "line"
    /\ lineTok' = ConfSectionParse(rawline)
    /\ pc' = "parse"
    /\ UNCHANGED <<deltaVars, eqVars, indentVars, legacyVars, text, doc, err, out, re, rawline, lineOut, lookupVars>>

\* to_string() of the Value or Line
LineShow ==
    /\ pc \in {"from_str", "tokenized", "new"}
    /\ lineTok.res = "Ok"
    /\ lineOut = None
    /\ lineOut' = Some(DisplayLine(lineTok.val))
    /\ UNCHANGED <<deltaVars, eqVars, indentVars, legacyVars, docVars, text, rawline, lineTok, lookupVars>>

NextLine ==
    \/ ValueParse
    \/ LineTokenize
    \/ \E key \in NewKeys, value \in NewValues : LineNew(key, value)
    \/ SectionParse
    \/ LineShow

SpecLine == InitLine /\ [][NextLine]_vars

----------------------------------------------------------------------------
(* The parse of a whole text, the parser going through its lines, then one  *)
(* child lookup on the document or on one of its Nodes                      *)

MaxTextLines == 3

ParseLineSet ==
    {<<"A", SP, "1">>, <<"A", SP, "2">>, <<"B">>,
     <<TAB, "A">>, <<SP, SP, "A">>, <<SP, TAB, "A">>,
     <<HASH, "A">>, <<TAB, HASH, "A">>, <<>>, <<TAB>>}

LookupKeys == {<<"A">>, <<"B">>, <<>>}

\* The paths of child indices that lead to the Nodes of a forest
RECURSIVE NodePaths(_)
NodePaths(children) ==
    UNION {{<<i>>} \cup {<<i>> \o q : q \in NodePaths(children[i].children)} :
             i \in {j \in 1..Len(children) : children[j].type = "Value"}}

InitParse ==
    /\ s = <<>> /\ indent = NotRun
    /\ text \in Strs(ParseLineSet, MaxTextLines)
    /\ IdleLegacy
    /\ doc = EmptyDoc
    /\ err = NoError /\ pc = "reading" /\ out = <<>> /\ re = NotRun
    /\ IdleLine
    /\ lookup = NotLooked
    /\ cursor = 1
    /\ IdleDelta
    /\ IdleEq

\* The parser takes the next line of the text and accepts it
ParseLineOk ==
    /\ pc = "reading"
    /\ cursor <= Len(text)
    /\ DocParseLine(doc, text[cursor]).res = "Ok"
    /\ doc' = DocParseLine(doc, text[cursor]).val
    /\ cursor' = cursor + 1
    /\ UNCHANGED <<deltaVars, eqVars, indentVars, legacyVars, lineVars, lookup, text, err, pc, out, re>>

\* The parser takes the next line of the text and returns its error; the
\* document under assembly is dropped
ParseLineErr ==
    /\ pc = "reading"
    /\ cursor <= Len(text)
    /\ DocParseLine(doc, text[cursor]).res = "Err"
    /\ err' = ParseError(cursor, DocParseLine(doc, text[cursor]).kind)
    /\ doc' = EmptyDoc
    /\ pc' = "failed"
    /\ UNCHANGED <<deltaVars, eqVars, indentVars, legacyVars, lineVars, lookupVars, text, out, re>>

\* No line is left: the parser returns the document
ParseEnd ==
    /\ pc = "reading"
    /\ cursor = Len(text) + 1
    /\ pc' = "parsed"
    /\ UNCHANGED <<deltaVars, eqVars, indentVars, legacyVars, lineVars, lookupVars, text, doc, err, out, re>>

Looked(p, key, op, child, children, has) ==
    [parent |-> p, key |-> key, op |-> op,
     child |-> child, children |-> children, has |-> has]

\* node.child(key), node.child_mut(key)
LookupChild(p, key) ==
    /\ pc = "parsed"
    /\ lookup' = Looked(p, key, "child",
                        Child(NodeAt(doc.children, p).children, key), <<>>, FALSE)
    /\ pc' = "looked"
    /\ UNCHANGED <<deltaVars, eqVars, indentVars, legacyVars, lineVars, cursor, text, doc, err, out, re>>

\* node.children(key), node.children_mut(key)
LookupChildren(p, key) ==
    /\ pc = "parsed"
    /\ lookup' = Looked(p, key, "children", 0,
                        Children(NodeAt(doc.children, p).children, key), FALSE)
    /\ pc' = "looked"
    /\ UNCHANGED <<deltaVars, eqVars, indentVars, legacyVars, lineVars, cursor, text, doc, err, out, re>>

\* node.has_child(key)
LookupHasChild(p, key) ==
    /\ pc = "parsed"
    /\ lookup' = Looked(p, key, "has_child", 0, <<>>,
                        HasChild(NodeAt(doc.children, p).children, key))
    /\ pc' = "looked"
    /\ UNCHANGED <<deltaVars, eqVars, indentVars, legacyVars, lineVars, cursor, text, doc, err, out, re>>

\* The same lookups on the document: the root holds the top-level entries
\* as a Node holds its children
RootChild(key) ==
    /\ pc = "parsed"
    /\ lookup' = Looked(<<>>, key, "child", Child(doc.children, key), <<>>, FALSE)
    /\ pc' = "looked"
    /\ UNCHANGED <<deltaVars, eqVars, indentVars, legacyVars, lineVars, cursor, text, doc, err, out, re>>

RootChildren(key) ==
    /\ pc = "parsed"
    /\ lookup' = Looked(<<>>, key, "children", 0, Children(doc.children, key), FALSE)
    /\ pc' = "looked"
    /\ UNCHANGED <<deltaVars, eqVars, indentVars, legacyVars, lineVars, cursor, text, doc, err, out, re>>

RootHasChild(key) ==
    /\ pc = "parsed"
    /\ lookup' = Looked(<<>>, key, "has_child", 0, <<>>, HasChild(doc.children, key))
    /\ pc' = "looked"
    /\ UNCHANGED <<deltaVars, eqVars, indentVars, legacyVars, lineVars, cursor, text, doc, err, out, re>>

NextParse ==
    \/ ParseLineOk
    \/ ParseLineErr
    \/ ParseEnd
    \/ \E p \in NodePaths(doc.children), key \in LookupKeys : LookupChild(p, key)
    \/ \E p \in NodePaths(doc.children), key \in LookupKeys : LookupChildren(p, key)
    \/ \E p \in NodePaths(doc.children), key \in LookupKeys : LookupHasChild(p, key)
    \/ \E key \in LookupKeys : RootChild(key)
    \/ \E key \in LookupKeys : RootChildren(key)
    \/ \E key \in LookupKeys : RootHasChild(key)

SpecParse == InitParse /\ [][NextParse]_vars

----------------------------------------------------------------------------
(* Properties of single lines *)

\* The text of a line after its indentation
Rest(l) == SubSeq(l, WhitespaceEndIndex(l) + 1, Len(l))

\* C11: the text after the indentation of a line that is neither blank nor
\* a comment is split at its first space: the key is the text before it, the
\* value the whole text after it, absent when there is no space or nothing
\* after it; no other character separates them
KeyValueSplit ==
    (/\ pc = "from_str" /\ lineTok.res = "Ok"
     /\ ~TrimIsEmpty(rawline) /\ Head(Rest(rawline)) # HASH) =>
        LET rest == Rest(rawline)
            v == lineTok.val
            after == SubSeq(rest, Len(v.key) + 2, Len(rest))
        IN  /\ SP \notin Range(v.key)
            /\ IF SP \notin Range(rest)
               THEN v.key = rest /\ v.value = None
               ELSE /\ rest = v.key \o <<SP>> \o after
                    /\ v.value = (IF after = <<>> THEN None ELSE Some(after))

\* Value::from_str returned an indented key with a value that holds a space
KeyValueSplitReached ==
    /\ pc = "from_str" /\ lineTok.res = "Ok"
    /\ ~TrimIsEmpty(rawline) /\ Head(Rest(rawline)) # HASH
    /\ lineTok.val.indent.tag # "Empty"
    /\ lineTok.val.key # <<>>
    /\ lineTok.val.value.some
    /\ SP \in Range(lineTok.val.value.v)

\* The indentation characters of the line Display was applied to
ShownRun == IF pc = "new" THEN <<>> ELSE LeadingRun(rawline)

NonEmptyKeys ==
    /\ (pc = "from_str" /\ lineTok.res = "Ok" /\ ~TrimIsEmpty(rawline))
          => lineTok.val.key # <<>>
    /\ (pc = "tokenized" /\ lineTok.res = "Ok" /\ lineTok.val.type = "Value")
          => lineTok.val.key # <<>>
    /\ (pc = "parse" /\ lineTok.some /\ ~TrimIsEmpty(rawline))
          => lineTok.v.key # <<>>

----------------------------------------------------------------------------
(* Properties of whole-text parses and of lookups *)

\* The line is neither blank nor a comment
IsKeyValueLine(l) == ~TrimIsEmpty(l) /\ Head(Rest(l)) # HASH

\* The key written on a key/value line: the text up to the first space
LineKey(l) ==
    LET sp == {i \in 1..Len(Rest(l)) : Rest(l)[i] = SP}
    IN  IF sp = {} THEN Rest(l) ELSE SubSeq(Rest(l), 1, Min(sp) - 1)

\* The number of Nodes with the key anywhere in the forest
RECURSIVE CountNodes(_, _)
CountNodes(children, key) ==
    IF children = <<>> THEN 0
    ELSE LET h == Head(children)
         IN  (IF h.type # "Value" THEN 0
              ELSE (IF h.key = key THEN 1 ELSE 0) + CountNodes(h.children, key))
             + CountNodes(Tail(children), key)

\* The children list the lookup was made on
LookedChildren ==
    IF lookup.parent = <<>> THEN doc.children
    ELSE NodeAt(doc.children, lookup.parent).children

\* The Node children with the key that was looked up
Matches ==
    {i \in 1..Len(LookedChildren) :
        LookedChildren[i].type = "Value" /\ LookedChildren[i].key = lookup.key}

LookupReturnsNodesOnly ==
    pc = "looked" =>
        /\ lookup.child # 0 => LookedChildren[lookup.child].type = "Value"
        /\ \A n \in 1..Len(lookup.children) :
              LookedChildren[lookup.children[n]].type = "Value"
        /\ lookup.has => Matches # {}

\* A first-child lookup for the text of a comment or blank line among the
\* children returned nothing
EntryTextLookedUp ==
    /\ pc = "looked" /\ lookup.op = "child"
    /\ \E i \in 1..Len(LookedChildren) :
          /\ LookedChildren[i].type # "Value"
          /\ EntryText(LookedChildren[i]) = lookup.key
    /\ lookup.child = 0

\* The parse of the first n lines of the text on their own
PrefixParse(n) == DocFromStr(TextOf(SubSeq(text, 1, n)))

\* Line n is the first key/value line of the text
FirstKeyValueLine(n) ==
    /\ IsKeyValueLine(text[n])
    /\ \A j \in 1..(n - 1) : ~IsKeyValueLine(text[j])

\* Line n is invalid whatever the lines around it hold: its indentation
\* mixes tabs and spaces, or it is the first key/value line and is indented
FaultAt(n) ==
    /\ ~TrimIsEmpty(text[n])
    /\ \/ MixedRun(LeadingRun(text[n]))
       \/ FirstKeyValueLine(n) /\ LeadingRun(text[n]) # <<>>

----------------------------------------------------------------------------
(* Properties of the forest the document parser assembles *)

\* Every indented Node has the tag of each of its indented ancestors
StyleKept(children) ==
    \A p \in NodePaths(children) :
        \A k \in 1..(Len(p) - 1) :
            LET a == NodeAt(children, SubSeq(p, 1, k)).indent.tag
                n == NodeAt(children, p).indent.tag
            IN  (a # "Empty" /\ n # "Empty") => a = n

\* The next line is a key/value line indented in the other style than the
\* deepest open Node, which has no Node child yet
FirstChildOtherStyle(d, l) ==
    /\ d.path # <<>>
    /\ LastValueIndex(NodeAt(d.children, d.path).children) = 0
    /\ NodeAt(d.children, d.path).indent.tag # "Empty"
    /\ TokenOf(l).tag \notin {"Empty", NodeAt(d.children, d.path).indent.tag}

RECURSIVE PreOrder(_)
PreOrder(children) ==
    IF children = <<>> THEN <<>>
    ELSE <<Head(children)>>
         \o (IF Head(children).type = "Value"
             THEN PreOrder(Head(children).children) ELSE <<>>)
         \o PreOrder(Tail(children))

\* The line of an entry, children and newline left out
OwnLine(e) ==
    CASE e.type = "Blank" -> e.text
      [] e.type = "Comment" -> DisplayIndent(e.indent) \o <<HASH>> \o e.comment
      [] e.type = "Value" ->
            DisplayIndent(e.indent) \o e.key
                \o (IF e.value.some THEN <<SP>> \o e.value.v ELSE <<>>)

----------------------------------------------------------------------------
(* Properties of blank lines and comments in a parsed text *)

\* The forest without its blank lines and comments
RECURSIVE NodesOnly(_)
NodesOnly(children) ==
    IF children = <<>> THEN <<>>
    ELSE LET h == Head(children)
         IN  (IF h.type = "Value"
              THEN <<[h EXCEPT !.children = NodesOnly(h.children)]>>
              ELSE <<>>)
             \o NodesOnly(Tail(children))

\* The lines the parser has accepted so far
Consumed == SubSeq(text, 1, cursor - 1)

\* C21: the text without its blank lines and comments parses as well and
\* gives the same tree of Nodes: keys, values, indentation tokens, parents,
\* children and their order; a blank line or comment does not change where
\* a later key/value line is attached
NestingIgnoresBlanks ==
    pc \in {"reading", "parsed", "looked"} =>
        LET stripped == DocFromStr(TextOf(SelectSeq(Consumed, IsKeyValueLine)))
        IN  /\ stripped.res = "Ok"
            /\ stripped.val = NodesOnly(doc.children)

\* A text was parsed in which a comment or blank line stands between a Node
\* and the line that became its child
BlankBeforeChild ==
    /\ pc = "parsed"
    /\ Len(text) = 3
    /\ IsKeyValueLine(text[1]) /\ ~IsKeyValueLine(text[2]) /\ IsKeyValueLine(text[3])
    /\ Len(NodesOnly(doc.children)) = 1
    /\ Len(NodesOnly(doc.children)[1].children) = 1

\* The paths of all entries of a forest in depth-first pre-order
RECURSIVE PreOrderPaths(_, _, _)
PreOrderPaths(children, prefix, i) ==
    IF i > Len(children) THEN <<>>
    ELSE <<Append(prefix, i)>>
         \o (IF children[i].type = "Value"
             THEN PreOrderPaths(children[i].children, Append(prefix, i), 1)
             ELSE <<>>)
         \o PreOrderPaths(children, prefix, i + 1)

\* C22: a blank line or comment is appended as the last child entry of the
\* most recently attached Node, at the top level when there is none, so a
\* pre-order walk of the forest meets the lines in their order in the file
BlankPlacement ==
    pc \in {"reading", "parsed", "looked"} =>
        LET paths == PreOrderPaths(doc.children, <<>>, 1)
        IN  /\ Len(paths) = Len(Consumed)
            /\ \A i \in 1..Len(paths) :
                  /\ OwnLine(NodeAt(doc.children, paths[i])) = text[i]
                  /\ ~IsKeyValueLine(text[i]) =>
                        LET before == {j \in 1..(i - 1) : IsKeyValueLine(text[j])}
                            siblings == {j \in 1..(i - 1) :
                                            Parent(paths[j]) = Parent(paths[i])}
                        IN  /\ NodeAt(doc.children, paths[i]).type # "Value"
                            /\ Parent(paths[i])
                                  = (IF before = {} THEN <<>> ELSE paths[Max(before)])
                            /\ Last(paths[i]) = Cardinality(siblings) + 1

\* A comment or blank line was put below a Node, and a key/value line came
\* after it
BlankBelowNode ==
    /\ pc = "parsed"
    /\ \E i \in 1..(Len(text) - 1) :
          /\ ~IsKeyValueLine(text[i])
          /\ Len(PreOrderPaths(doc.children, <<>>, 1)[i]) = 2
          /\ IsKeyValueLine(text[i + 1])

====
